---- MODULE Spec2Model ----
(***************************************************************************)
(* qitime.py, quality_time(): the Quality Imaging Time report of one       *)
(* night.  The function builds one ephem.Observer, asks the ephemeris for  *)
(* the lunation, for the rise/transit/set of the Sun and the Moon and for  *)
(* the twilight window at -15 degrees, and then prints one glyph for each  *)
(* of the 48 half-hour slots of the calendar day.                          *)
(*                                                                         *)
(* Time is counted in minutes.  The ephemeris (the ephem library) is the   *)
(* environment: its answers are computed from the variable sky, a small    *)
(* periodic sky chosen at Init, and every rise/transit/set query may also  *)
(* end in AlwaysUpError or NeverUpError.                                   *)
(***************************************************************************)
EXTENDS Integers, Sequences, FiniteSets

VARIABLES
    pc,            \* position in quality_time
    date_time,     \* argument date_time
    moon_display,  \* argument moon_display
    sky,           \* the ephemeris' world (environment)
    observer,      \* ephem.Observer: its horizon and date fields
    lunation,      \* <<numerator, denominator>> of the lunation in percent
    target,        \* index in Targets of the rise/transit/set loop
    times,         \* the dict times
    dt,            \* calendar day of observer.date.datetime()
    phase,         \* the phase glyph
    slot,          \* number of slots printed so far (h * 2 + index of m)
    out,           \* the glyphs printed by the slot loop
    log            \* every ephemeris query made, with the observer it saw

vars == <<pc, date_time, moon_display, sky, observer, lunation, target,
          times, dt, phase, slot, out, log>>

----------------------------------------------------------------------------
(* Bounds of the model *)

\* new-moon distances (before and after the reference instant) drawn for the
\* phase computation: 0..MaxAge before, 1..MaxAge after
MaxAge == 16
\* the reference instants tried are RefDay days after the epoch
RefDay == 1
\* offset of local time from the ephemeris' time, in minutes
TzOffset == 60

(* Program constants *)

HoursPerDay == 24
Minutes == <<0, 30>>
MinutesPerHour == 60
MinutesPerDay == HoursPerDay * MinutesPerHour
SlotsPerDay == HoursPerDay * Len(Minutes)

None == {}
Some(t) == {t}
Val(o) == CHOOSE t \in o : TRUE

Targets == <<"Sun", "Moon">>

\* the phase thresholds, in hundredths of a percent
T_6_25 == 625
T_18_75 == 1875
T_31_25 == 3125
T_43_75 == 4375
T_56_25 == 5625
T_68_75 == 6875
T_81_25 == 8125
T_93_75 == 9375

----------------------------------------------------------------------------
(* The ephemeris: ephem.Observer's queries, answered from sky.             *)
(* A body is above the -15 degree line from Half(body) minutes before its  *)
(* transit to Half(body) minutes after it, every day; a higher horizon is  *)
(* crossed HorizonLag minutes later on the way up and earlier on the way   *)
(* down.                                                                   *)

Horizons == {"-0:34", "-15", "0"}

HorizonLag(horizon) ==
    CASE horizon = "-15" -> 0
      [] horizon = "-0:34" -> 75
      [] horizon = "0" -> 78

Transit(body) == IF body = "Sun" THEN sky.sunTransit ELSE sky.moonTransit
Half(body) == IF body = "Sun" THEN sky.sunHalf ELSE sky.moonHalf

TimeOfDay(t) == t % MinutesPerDay
DayOf(t) == t \div MinutesPerDay

\* the first instant after date whose time of day is tod
NextAt(date, tod) ==
    LET today == DayOf(date) * MinutesPerDay + tod
    IN  IF today > date THEN today ELSE today + MinutesPerDay

RiseTime(body, horizon) ==
    TimeOfDay(Transit(body) - Half(body) + HorizonLag(horizon))
SetTime(body, horizon) ==
    TimeOfDay(Transit(body) + Half(body) - HorizonLag(horizon))

next_rising(body, obs) == NextAt(obs.date, RiseTime(body, obs.horizon))
next_transit(body, obs) == NextAt(obs.date, Transit(body))
next_setting(body, obs) == NextAt(obs.date, SetTime(body, obs.horizon))

\* minutes between t and the nearest transit of body
FromTransit(body, t) ==
    LET d == TimeOfDay(t - Transit(body))
    IN  IF d <= MinutesPerDay - d THEN d ELSE MinutesPerDay - d

\* body.compute(observer); body.alt (in units of the sky's rotation per minute)
Altitude(body, obs) ==
    Half(body) - HorizonLag("0") - FromTransit(body, obs.date)

\* is body above horizon at instant t (the ephemeris' own notion)
Above(body, horizon, t) ==
    FromTransit(body, t) < Half(body) - HorizonLag(horizon)
    \/ TimeOfDay(t) = RiseTime(body, horizon)

next_new_moon(date) == date + sky.toNextNew
previous_new_moon(date) == date - sky.sincePrevNew

\* what a rise/transit/set query can end in: the instant, or one of the errors
\* (the errors only where the sky is polar)
Returned(t) == [raised |-> "no", at |-> t]
Outcomes(t) ==
    IF sky.polar
    THEN {Returned(t),
          [raised |-> "AlwaysUpError", at |-> 0],
          [raised |-> "NeverUpError", at |-> 0]}
    ELSE {Returned(t)}

\* a query as logged: the part of quality_time that made it, the call, and
\* the observer fields it ran with
Query(part, op, body, obs) ==
    [part |-> part, op |-> op, body |-> body,
     horizon |-> obs.horizon, date |-> obs.date]

\* ephem.localtime
localtime(t) == t + TzOffset

----------------------------------------------------------------------------
(* Lunation and phase *)

\* (observer.date - prev_new_moon) / (next_new_moon - prev_new_moon) * 100,
\* kept as a fraction
Lunation(date, prev, next) == <<(date - prev) * 100, next - prev>>

\* lunation < t and lunation > t for a threshold t in hundredths
Lt(l, t) == l[1] * 100 < t * l[2]
Gt(l, t) == l[1] * 100 > t * l[2]
Le(l, t) == ~Gt(l, t)

PhaseGlyphs ==
    <<"NEW_MOON", "WAXING_CRESCENT", "FIRST_QUARTER", "WAXING_GIBBOUS",
      "FULL_MOON", "WANING_GIBBOUS", "LAST_QUARTER", "WANING_CRESCENT">>

\* PhaseOf with the last comparison strict (lunation < 93.75)
PhaseOfStrictLast(l) ==
    IF Lt(l, T_6_25) \/ Gt(l, T_93_75) THEN PhaseGlyphs[1]
    ELSE IF Lt(l, T_18_75) THEN PhaseGlyphs[2]
    ELSE IF Lt(l, T_31_25) THEN PhaseGlyphs[3]
    ELSE IF Lt(l, T_43_75) THEN PhaseGlyphs[4]
    ELSE IF Lt(l, T_56_25) THEN PhaseGlyphs[5]
    ELSE IF Lt(l, T_68_75) THEN PhaseGlyphs[6]
    ELSE IF Lt(l, T_81_25) THEN PhaseGlyphs[7]
    ELSE IF Lt(l, T_93_75) THEN PhaseGlyphs[8]
    ELSE ""

\* PhaseOf with the second comparison inclusive (lunation <= 18.75)
PhaseOfRightInclusive(l) ==
    IF Lt(l, T_6_25) \/ Gt(l, T_93_75) THEN PhaseGlyphs[1]
    ELSE IF Le(l, T_18_75) THEN PhaseGlyphs[2]
    ELSE IF Lt(l, T_31_25) THEN PhaseGlyphs[3]
    ELSE IF Lt(l, T_43_75) THEN PhaseGlyphs[4]
    ELSE IF Lt(l, T_56_25) THEN PhaseGlyphs[5]
    ELSE IF Lt(l, T_68_75) THEN PhaseGlyphs[6]
    ELSE IF Lt(l, T_81_25) THEN PhaseGlyphs[7]
    ELSE IF Le(l, T_93_75) THEN PhaseGlyphs[8]
    ELSE ""

\* the if/elif chain on lunation
PhaseOf(l) ==
    IF Lt(l, T_6_25) \/ Gt(l, T_93_75) THEN PhaseGlyphs[1]
    ELSE IF Lt(l, T_18_75) THEN PhaseGlyphs[2]
    ELSE IF Lt(l, T_31_25) THEN PhaseGlyphs[3]
    ELSE IF Lt(l, T_43_75) THEN PhaseGlyphs[4]
    ELSE IF Lt(l, T_56_25) THEN PhaseGlyphs[5]
    ELSE IF Lt(l, T_68_75) THEN PhaseGlyphs[6]
    ELSE IF Lt(l, T_81_25) THEN PhaseGlyphs[7]
    ELSE IF Le(l, T_93_75) THEN PhaseGlyphs[8]
    ELSE ""

----------------------------------------------------------------------------
(* The dict times *)

Put(f, k, v) == [x \in DOMAIN f \cup {k} |-> IF x = k THEN v ELSE f[x]]

Flagged(rec, up, never, raised) ==
    IF raised = "AlwaysUpError" THEN [rec EXCEPT ![up] = TRUE]
    ELSE [rec EXCEPT ![never] = TRUE]

\* times[target] after the try block of the rise/transit/set loop: the queries
\* run in the order rise, transit, set and the first error ends the block
BodyTimes(r, tr, s) ==
    LET t0 == [rise |-> None, transit |-> None, set |-> None,
               always_up |-> FALSE, never_up |-> FALSE]
        t1 == [t0 EXCEPT !.rise = Some(r.at)]
        t2 == [t1 EXCEPT !.transit = Some(tr.at)]
        t3 == [t2 EXCEPT !.set = Some(s.at)]
    IN  IF r.raised # "no" THEN Flagged(t0, "always_up", "never_up", r.raised)
        ELSE IF tr.raised # "no" THEN Flagged(t1, "always_up", "never_up", tr.raised)
        ELSE IF s.raised # "no" THEN Flagged(t2, "always_up", "never_up", s.raised)
        ELSE t3

\* the queries the try block made before it ended
BodyQueries(body, obs, r, tr, s) ==
    <<Query("rise_transit_set", "next_rising", body, obs)>>
    \o (IF r.raised = "no"
        THEN <<Query("rise_transit_set", "next_transit", body, obs)>> ELSE <<>>)
    \o (IF r.raised = "no" /\ tr.raised = "no"
        THEN <<Query("rise_transit_set", "next_setting", body, obs)>> ELSE <<>>)

\* TwilightWindow with the two queries assigned the other way round
TwilightWindowSwapped(setting, rising) ==
    LET t0 == [dawn |-> None, dusk |-> None, always |-> FALSE, never |-> FALSE]
        t1 == [t0 EXCEPT !.dawn = Some(setting.at)]
        t2 == [t1 EXCEPT !.dusk = Some(rising.at)]
    IN  IF setting.raised # "no" THEN Flagged(t0, "always", "never", setting.raised)
        ELSE IF rising.raised # "no" THEN Flagged(t1, "always", "never", rising.raised)
        ELSE t2

\* the four twilight entries of times after the try block of the twilight
\* loop: dusk from next_setting, then dawn from next_rising
TwilightWindow(setting, rising) ==
    LET t0 == [dawn |-> None, dusk |-> None, always |-> FALSE, never |-> FALSE]
        t1 == [t0 EXCEPT !.dusk = Some(setting.at)]
        t2 == [t1 EXCEPT !.dawn = Some(rising.at)]
    IN  IF setting.raised # "no" THEN Flagged(t0, "always", "never", setting.raised)
        ELSE IF rising.raised # "no" THEN Flagged(t1, "always", "never", rising.raised)
        ELSE t2

TwilightQueries(obs, setting) ==
    <<Query("twilight", "next_setting", "Sun", obs)>>
    \o (IF setting.raised = "no"
        THEN <<Query("twilight", "next_rising", "Sun", obs)>> ELSE <<>>)

PutTwilight(t, w) ==
    Put(Put(Put(Put(t, "Quality_dawn", w.dawn), "Quality_dusk", w.dusk),
            "Quality_always", w.always), "Quality_never", w.never)

----------------------------------------------------------------------------
(* The slot loop *)

\* ephem.Date("Y-M-D hh:mm:00") of calendar day `day`
EphemDate(day, h, m) == day * MinutesPerDay + h * MinutesPerHour + m

\* current_date of the k-th iteration (k = 0 .. 47) of `for h ... for m ...`
current_date(day, k) ==
    localtime(EphemDate(day, k \div Len(Minutes), Minutes[(k % Len(Minutes)) + 1]))

\* SlotClass without the test of the never flag
SlotClassNoNever(t, cur) ==
    IF t["Quality_always"] THEN "daylight"
    ELSE IF t["Quality_dawn"] = None THEN "TypeError"
    ELSE IF ~(cur > Val(t["Quality_dawn"])) THEN "dark"
    ELSE IF t["Quality_dusk"] = None THEN "TypeError"
    ELSE IF cur < Val(t["Quality_dusk"]) THEN "daylight"
    ELSE "dark"

\* SlotClass printing the sun glyph under either flag
SlotClassNeverDaylight(t, cur) ==
    IF t["Quality_always"] \/ t["Quality_never"] THEN "daylight"
    ELSE IF t["Quality_dawn"] = None THEN "TypeError"
    ELSE IF ~(cur > Val(t["Quality_dawn"])) THEN "dark"
    ELSE IF t["Quality_dusk"] = None THEN "TypeError"
    ELSE IF cur < Val(t["Quality_dusk"]) THEN "daylight"
    ELSE "dark"

\* SlotClass taking the always flag for continuous darkness
SlotClassAlwaysDark(t, cur) ==
    IF t["Quality_always"] THEN "dark"
    ELSE IF t["Quality_never"] = FALSE
    THEN IF t["Quality_dawn"] = None THEN "TypeError"
         ELSE IF ~(cur > Val(t["Quality_dawn"])) THEN "dark"
         ELSE IF t["Quality_dusk"] = None THEN "TypeError"
         ELSE IF cur < Val(t["Quality_dusk"]) THEN "daylight"
         ELSE "dark"
    ELSE "dark"

\* SlotClass with the comparison with dawn inclusive (current_date >= dawn)
SlotClassInclusive(t, cur) ==
    IF t["Quality_always"] THEN "daylight"
    ELSE IF t["Quality_never"] = FALSE
    THEN IF t["Quality_dawn"] = None THEN "TypeError"
         ELSE IF ~(cur >= Val(t["Quality_dawn"])) THEN "dark"
         ELSE IF t["Quality_dusk"] = None THEN "TypeError"
         ELSE IF cur < Val(t["Quality_dusk"]) THEN "daylight"
         ELSE "dark"
    ELSE "dark"

\* the if / elif / else of the slot loop: "daylight" prints the sun glyph,
\* "dark" goes to the else branch, "TypeError" is Python's answer to an
\* ordering comparison with None
SlotClass(t, cur) ==
    IF t["Quality_always"] THEN "daylight"
    ELSE IF t["Quality_never"] = FALSE
    THEN IF t["Quality_dawn"] = None THEN "TypeError"
         ELSE IF ~(cur > Val(t["Quality_dawn"])) THEN "dark"
         ELSE IF t["Quality_dusk"] = None THEN "TypeError"
         ELSE IF cur < Val(t["Quality_dusk"]) THEN "daylight"
         ELSE "dark"
    ELSE "dark"

\* MoonGlyph with the comparison inclusive (moon.alt >= 0)
MoonGlyphGe(alt, ph) == IF alt >= 0 THEN ph ELSE "MILKY_WAY"

\* if moon.alt > 0: print(phase) else: print(milky way)
MoonGlyph(alt, ph) == IF alt > 0 THEN ph ELSE "MILKY_WAY"

\* SlotObserver without the assignment of the horizon
SlotObserverKeepHorizon(obs, cur) == [obs EXCEPT !.date = cur]

\* the observer after the assignments made before moon.compute(observer)
SlotObserver(obs, cur) == [obs EXCEPT !.horizon = "0", !.date = cur]

----------------------------------------------------------------------------
(* Inputs *)

\* date_time: local midnight and an early afternoon of day RefDay
RefTimes == {RefDay * MinutesPerDay + m : m \in {0, 810}}

\* polar skies, where every rise/transit/set query may end in an error: the sun
\* transits at noon or half an hour after midnight, the day is short or long
PolarSkies ==
    [polar : {TRUE}, sunTransit : {720, 30}, sunHalf : {240, 495},
     moonTransit : {720}, moonHalf : {438},
     sincePrevNew : {4}, toNextNew : {12}]

\* temperate skies, with every pair of new-moon distances
TemperateSkies ==
    [polar : {FALSE}, sunTransit : {720}, sunHalf : {240},
     moonTransit : {720}, moonHalf : {438},
     sincePrevNew : 0..MaxAge, toNextNew : 1..MaxAge]

Skies == PolarSkies \cup TemperateSkies

\* lines 24-46: the observer as constructed
Init ==
    /\ pc = "lunation"
    /\ date_time \in RefTimes
    /\ moon_display \in BOOLEAN
    /\ sky \in Skies
    /\ observer = [horizon |-> "-0:34", date |-> date_time]
    /\ lunation = <<0, 1>>
    /\ target = 1
    /\ times = <<>>
    /\ dt = 0
    /\ phase = ""
    /\ slot = 0
    /\ out = <<>>
    /\ log = <<>>

----------------------------------------------------------------------------
(* Steps of quality_time *)

\* lines 48-51
ComputeLunation ==
    /\ pc = "lunation"
    /\ lunation' = Lunation(observer.date, previous_new_moon(observer.date),
                            next_new_moon(observer.date))
    /\ log' = log \o <<Query("lunation", "next_new_moon", "Moon", observer),
                       Query("lunation", "previous_new_moon", "Moon", observer)>>
    /\ pc' = "rise_transit_set"
    /\ UNCHANGED <<date_time, moon_display, sky, observer, target, times, dt,
                   phase, slot, out>>

\* lines 57-82: one iteration of `for target in objects`
RiseTransitSet ==
    /\ pc = "rise_transit_set"
    /\ \E r \in Outcomes(localtime(next_rising(Targets[target], observer))),
          tr \in Outcomes(localtime(next_transit(Targets[target], observer))),
          s \in Outcomes(localtime(next_setting(Targets[target], observer))) :
          /\ times' = Put(times, Targets[target], BodyTimes(r, tr, s))
          /\ log' = log \o BodyQueries(Targets[target], observer, r, tr, s)
    /\ IF target < Len(Targets)
       THEN target' = target + 1 /\ pc' = pc
       ELSE target' = target /\ pc' = "twilight"
    /\ UNCHANGED <<date_time, moon_display, sky, observer, lunation, dt,
                   phase, slot, out>>

\* lines 94-119: the twilight loop (one twilight type, 'Quality': '-15')
Twilight ==
    /\ pc = "twilight"
    /\ observer' = [observer EXCEPT !.horizon = "-15"]
    /\ \E setting \in Outcomes(localtime(next_setting("Sun", observer'))),
          rising \in Outcomes(localtime(next_rising("Sun", observer'))) :
          /\ times' = PutTwilight(times, TwilightWindow(setting, rising))
          /\ log' = log \o TwilightQueries(observer', setting)
    /\ pc' = "dark_night"
    /\ UNCHANGED <<date_time, moon_display, sky, lunation, target, dt, phase,
                   slot, out>>

\* lines 124-158: dt and the phase glyph
DarkNight ==
    /\ pc = "dark_night"
    /\ dt' = DayOf(observer.date)
    /\ phase' = PhaseOf(lunation)
    /\ pc' = "slots"
    /\ UNCHANGED <<date_time, moon_display, sky, observer, lunation, target,
                   times, slot, out, log>>

\* lines 159-184: one iteration of the slot loop
Slot ==
    /\ pc = "slots"
    /\ slot < SlotsPerDay
    /\ LET cur == current_date(dt, slot)
           cls == SlotClass(times, cur)
       IN  IF cls = "TypeError"
           THEN /\ pc' = "TypeError"
                /\ UNCHANGED <<observer, out, log, slot>>
           ELSE /\ pc' = pc
                /\ slot' = slot + 1
                /\ IF cls = "daylight"
                   THEN /\ out' = Append(out, "SUN")
                        /\ UNCHANGED <<observer, log>>
                   ELSE IF moon_display = TRUE
                   THEN /\ observer' = SlotObserver(observer, cur)
                        /\ log' = Append(log, Query("slots", "compute", "Moon", observer'))
                        /\ out' = Append(out, MoonGlyph(Altitude("Moon", observer'), phase))
                   ELSE /\ out' = Append(out, "MILKY_WAY")
                        /\ UNCHANGED <<observer, log>>
    /\ UNCHANGED <<date_time, moon_display, sky, lunation, target, times, dt,
                   phase>>

\* line 185: the phase glyph that ends the strip
Finish ==
    /\ pc = "slots"
    /\ slot = SlotsPerDay
    /\ out' = Append(out, phase)
    /\ pc' = "done"
    /\ UNCHANGED <<date_time, moon_display, sky, observer, lunation, target,
                   times, dt, phase, slot, log>>

Next ==
    \/ ComputeLunation
    \/ RiseTransitSet
    \/ Twilight
    \/ DarkNight
    \/ Slot
    \/ Finish

Spec == Init /\ [][Next]_vars

----------------------------------------------------------------------------
(* Notions used by the properties *)

\* the twilight entries of times exist (the twilight loop has run)
HasWindow == "Quality_never" \in DOMAIN times
dawn == times["Quality_dawn"]
dusk == times["Quality_dusk"]
always == times["Quality_always"]
never == times["Quality_never"]

\* the instant of the i-th printed slot (i = 1 .. slot)
SlotInstant(i) == current_date(dt, i - 1)
Printed == 1..slot
DarkGlyphs == {"MILKY_WAY"} \cup {PhaseGlyphs[k] : k \in DOMAIN PhaseGlyphs}

\* the altitude the ephemeris gives the moon at instant t
MoonAltitudeAt(t) == Altitude("Moon", [horizon |-> "0", date |-> t])

\* lunation = t for a threshold t in hundredths
Eq(l, t) == l[1] * 100 = t * l[2]

\* the 8 bins of the lunation as the data model states them: bin 1 (new) is
\* below 6.25 or above 93.75, bins 2..7 are [lo, hi), bin 8 is [81.25, 93.75]
Thresholds ==
    <<T_6_25, T_18_75, T_31_25, T_43_75, T_56_25, T_68_75, T_81_25, T_93_75>>
InBin(k, l) ==
    IF k = 1 THEN Lt(l, Thresholds[1]) \/ Gt(l, Thresholds[8])
    ELSE IF k = 8 THEN ~Lt(l, Thresholds[7]) /\ ~Gt(l, Thresholds[8])
    ELSE ~Lt(l, Thresholds[k - 1]) /\ Lt(l, Thresholds[k])
BinsOf(l) == {k \in DOMAIN PhaseGlyphs : InBin(k, l)}
PhaseSet == pc \in {"slots", "done"}

----------------------------------------------------------------------------
(* Properties *)

C3_OnePhase ==
    PhaseSet =>
        /\ phase # ""
        /\ Cardinality({k \in DOMAIN PhaseGlyphs : PhaseGlyphs[k] = phase}) = 1
        /\ Cardinality(BinsOf(lunation)) = 1

C3_Witness ==
    /\ PhaseSet
    /\ Eq(lunation, T_93_75)
    /\ phase = PhaseGlyphs[8]

\* C4: the bins are left-inclusive (a lunation equal to a threshold gets the
\* glyph of the bin that starts there), the last bin is right-inclusive (93.75
\* is waning crescent), and only f > 93.75 or f < 6.25 is new
C4_LeftInclusive ==
    PhaseSet =>
        /\ \A k \in 1..7 : Eq(lunation, Thresholds[k]) => phase = PhaseGlyphs[k + 1]
        /\ Eq(lunation, Thresholds[8]) => phase = PhaseGlyphs[8]
        /\ phase = PhaseGlyphs[1]
              <=> (Lt(lunation, Thresholds[1]) \/ Gt(lunation, Thresholds[8]))
        /\ \A k \in BinsOf(lunation) : phase = PhaseGlyphs[k]

C4_Witness ==
    /\ PhaseSet
    /\ Eq(lunation, T_18_75)
    /\ phase = "FIRST_QUARTER"

\* C5: after twilight resolution a set flag means dawn and dusk are both
\* undefined, no flag means both are defined, and the flags exclude each other
C5_FlagsOrInstants ==
    HasWindow =>
        /\ always => (dawn = None /\ dusk = None)
        /\ never => (dawn = None /\ dusk = None)
        /\ (~always /\ ~never) => (dawn # None /\ dusk # None)
        /\ ~(always /\ never)

\* C6: whatever the rise/transit/set and twilight queries end in,
\* quality_time does not fail: no slot instant is compared with an undefined
\* dawn or dusk, and every degeneracy is recorded as a flag (a body's or the
\* window's), never two flags at once
C6_NoFailure ==
    /\ pc # "TypeError"
    /\ (pc = "slots" /\ slot < SlotsPerDay)
          => SlotClass(times, current_date(dt, slot)) # "TypeError"
    /\ \A b \in {"Sun", "Moon"} \cap DOMAIN times :
          /\ (times[b].always_up \/ times[b].never_up) <=> times[b].set = None
          /\ ~(times[b].always_up /\ times[b].never_up)
    /\ HasWindow =>
          /\ (always \/ never) <=> dawn = None
          /\ ~(always /\ never)

C6_Witness ==
    /\ pc = "done"
    /\ never /\ dusk # None
    /\ times["Sun"].always_up
    /\ times["Moon"].never_up /\ times["Moon"].transit # None

\* C7: if the always flag is set, every printed slot is the daylight glyph,
\* whatever the slot, moon_display and the moon, and no altitude query is made
C7_AlwaysUniform ==
    (HasWindow /\ always) =>
        /\ \A i \in Printed : out[i] = "SUN"
        /\ \A j \in DOMAIN log : log[j].part # "slots"

C7_Witness ==
    /\ pc = "done"
    /\ always /\ dusk # None
    /\ moon_display
    /\ \E i \in Printed : MoonAltitudeAt(SlotInstant(i)) > 0

\* C8: a slot that is not daylight is the milky way glyph when moon_display
\* is false (and no altitude query is made); when it is true the slot is the
\* phase glyph exactly when the moon's altitude at the slot's instant is > 0
\* and the milky way glyph when it is <= 0
C8_MoonGlyph ==
    PhaseSet =>
        /\ \A i \in Printed : out[i] # "SUN" =>
              IF moon_display
              THEN /\ out[i] = phase <=> MoonAltitudeAt(SlotInstant(i)) > 0
                   /\ out[i] = "MILKY_WAY" <=> MoonAltitudeAt(SlotInstant(i)) <= 0
              ELSE out[i] = "MILKY_WAY"
        /\ ~moon_display => \A j \in DOMAIN log : log[j].part # "slots"

C8_Witness ==
    /\ pc = "done"
    /\ moon_display
    /\ \E i \in Printed :
          out[i] = "MILKY_WAY" /\ MoonAltitudeAt(SlotInstant(i)) = 0
    /\ \E i \in Printed : out[i] = phase

\* C9: with neither flag set a slot is daylight iff dawn < slot instant < dusk,
\* both strict, so the daylight slots form one contiguous run
C9_StrictWindow ==
    (PhaseSet /\ ~always /\ ~never) =>
        /\ \A i \in Printed :
              out[i] = "SUN"
                 <=> (Val(dawn) < SlotInstant(i) /\ SlotInstant(i) < Val(dusk))
        /\ pc = "done" =>
              \A j \in Printed : out[j] # "SUN" =>
                  \/ \A i \in 1..(j - 1) : out[i] # "SUN"
                  \/ \A k \in (j + 1)..slot : out[k] # "SUN"

C9_Witness ==
    /\ pc = "done"
    /\ ~always /\ ~never
    /\ \E i \in Printed : SlotInstant(i) = Val(dawn) /\ out[i] \in DarkGlyphs
    /\ \E i \in Printed : SlotInstant(i) = Val(dusk) /\ out[i] \in DarkGlyphs
    /\ \E i \in Printed : out[i] = "SUN"

\* C10: every query sees the observer its part of the report requires
\* (lunation and rise/transit/set: '-0:34' and the report-start date; twilight:
\* '-15' and the report-start date; a slot's altitude query: '0' and that slot's
\* instant), the observer's date and the horizon '0' are first assigned in the
\* slot loop, and from the slot loop on lunation, times, the base day and the
\* phase are not recomputed
C10_ObserverDiscipline ==
    [][ /\ \A j \in DOMAIN log' :
              /\ log'[j].part \in {"lunation", "rise_transit_set"}
                    => (log'[j].horizon = "-0:34" /\ log'[j].date = date_time)
              /\ log'[j].part = "twilight"
                    => (log'[j].horizon = "-15" /\ log'[j].date = date_time)
              /\ log'[j].part = "slots" => log'[j].horizon = "0"
        /\ (Len(log') > Len(log) /\ pc = "slots")
              => log'[Len(log')].date = current_date(dt, slot)
        /\ (observer'.date # date_time \/ observer'.horizon = "0")
              => pc = "slots"
        /\ pc \in {"slots", "done"}
              => UNCHANGED <<lunation, times, dt, phase, date_time>>
      ]_vars

C10_Witness ==
    /\ pc = "done"
    /\ observer.horizon = "0" /\ observer.date # date_time
    /\ \E j \in DOMAIN log : log[j].part = "slots"
    /\ \E j \in DOMAIN log : log[j].part = "twilight" /\ log[j].op = "next_rising"

====
